---------------------------- MODULE Spec2Model ----------------------------
(***************************************************************************)
(* DexieManager (src/assets/custom/js/init.js, lines 180-538): the         *)
(* lifecycle of one IndexedDB store (initializeDatabase, deleteDatabase,   *)
(* refreshDatabase) and the population run every successful                *)
(* initializeDatabase() detaches (countEmptyTables, populateEmptyTables,   *)
(* syncTable, fetchTable).                                                 *)
(*                                                                         *)
(* Lifecycle calls are made one after another by a caller that awaits      *)
(* each; the population run of a call is not awaited by the code (line     *)
(* 269), so runs of earlier calls overlap later calls and each other.      *)
(* Every await of the code is a step boundary; the synchronous code        *)
(* between two awaits is one step.                                         *)
(***************************************************************************)
EXTENDS Integers, Sequences, FiniteSets, TLC

\* ------------------------------------------------------------- bounds
NumTables == 2      \* length of config.tables
MaxPages == 2       \* longest cursor chain the remote serves (chains are finite)
MaxMembers == 1     \* most records in the member list of one page
MaxCalls == 2       \* lifecycle calls made on the manager
MaxTotal == 101     \* largest table count of the progress arithmetic
MaxKeys == 2        \* most keys of an object given as config
MaxText == 2        \* longest string given as a locale
MaxStarts == 3      \* starts of the application

VARIABLES
    dbLocale,    \* this.dbLocale  (constructor argument, line 211)
    userLocale,  \* this.userLocale (constructor argument, line 217)
    db,          \* this.db: [id, st]; id 0 is undefined/null
    nDexie,      \* number of Dexie objects constructed so far
    store,       \* the IndexedDB database config.name: table -> records committed
    pending,     \* table -> records of add() requests issued and not yet committed
    writes,      \* number of writes issued to the store (adds and deletes)
    ncalls,      \* number of lifecycle calls started
    call,        \* call id -> [kind, pc, err] of the lifecycle call
    run,         \* call id -> the population run the call detached
    trace,       \* call id -> the events the call and its run dispatched, in order
    calc,        \* the progress arithmetic on its own: [n, i, prev, cur]
    made,        \* the construction on its own: [config, dbLocale, userLocale, pc, err]
    boot         \* the application around the manager: localStorage and its starts

vars == <<dbLocale, userLocale, db, nDexie, store, pending, writes, ncalls,
          call, run, trace, calc, made, boot>>

\* ------------------------------------------------------------- values
StoredLocales == {"en"}          \* localStorage dbLocale, 'en' when unset (line 67)
ActiveLocales == {"en", "fr"}    \* localStorage userLocale, 'en' when unset (line 68)
Tables == 1..NumTables
ConfigTables == [i \in 1..NumTables |-> i]     \* this.config.tables, in order
Calls == 1..MaxCalls
DbName == "db"                                 \* this.config.name

NoHandle == [id |-> 0, st |-> "none"]
\* st of a handle: "new"    constructed, no schema: db[table.name] is undefined
\*                 "bound"  version().stores() done, open() pending or not called
\*                 "open"   open() resolved
\*                 "closed" closed by delete() or by a failed open(): requests reject
Usable(h) == h.st \in {"bound", "open"}
\* the test left out
MissingNever(h) == FALSE

\* `if (!this.db)`: the guard of deleteDatabase, refreshDatabase, syncTable and
\* fetchTable.
Missing(h) == h.st = "none"

OldRecord == <<0, 0>>                          \* a record stored by an earlier session
PageRecords(p, m) == {<<p, j>> : j \in 1..m}   \* the ids of the m members of page p

Count(t) == Cardinality(store[t] \cup pending[t])

\* What fetchTable did for the table a run is syncing: requests issued, bodies
\* received, whether an error was caught, the cursor flag of the last body, the
\* records the bodies held and the records given to add() on a usable handle.
NoChain == [fetches |-> 0, pages |-> 0, failed |-> FALSE, next |-> FALSE,
            served |-> {}, added |-> {}]

NoRun == [pc |-> "none", i |-> 0, cnt |-> 0, tables |-> <<>>, index |-> 0,
          page |-> 0, scanned |-> FALSE, w0 |-> 0, w1 |-> 0, chain |-> NoChain,
          err |-> <<>>]
NoCall == [kind |-> "none", pc |-> "idle", err |-> <<>>]

\* ------------------------------------------------------------- constructor arguments
\* The JavaScript values a caller can pass: undefined, null, a number, an
\* object (or array) with n own keys, a string of characters s.
JsValue(ty, n, s) == [ty |-> ty, n |-> n, s |-> s]
Undefined == JsValue("undefined", 0, <<>>)
Null == JsValue("null", 0, <<>>)
Chars == {" ", "\t", "e"}
Whitespace == {" ", "\t"}
Texts == UNION {[1..k -> Chars] : k \in 0..MaxText}
ConfigValues ==
    {Undefined, Null, JsValue("number", 1, <<>>), JsValue("string", 0, <<"e">>)}
    \cup {JsValue("object", k, <<>>) : k \in 0..MaxKeys}
LocaleValues ==
    {Undefined, Null, JsValue("number", 0, <<>>), JsValue("number", 1, <<>>),
     JsValue("object", 1, <<>>)}
    \cup {JsValue("string", 0, s) : s \in Texts}

TypeOf(v) == IF v.ty = "null" THEN "object" ELSE v.ty
Truthy(v) ==
    CASE v.ty \in {"undefined", "null"} -> FALSE
      [] v.ty = "number" -> v.n # 0
      [] v.ty = "string" -> v.s # <<>>
      [] OTHER -> TRUE
KeysLength(v) == IF v.ty = "object" THEN v.n ELSE Len(v.s)

\* the string left as it is
TrimNothing(s) == s

\* String.prototype.trim: what lies between the first and the last character
\* that is not whitespace.
Trim(s) ==
    LET ink == {i \in 1..Len(s) : s[i] \notin Whitespace}
    IN  IF ink = {} THEN <<>>
        ELSE SubSeq(s, CHOOSE i \in ink : \A j \in ink : i <= j,
                       CHOOSE i \in ink : \A j \in ink : j <= i)

\* The test both locale arguments go through.
LocaleRejected(v) == ~Truthy(v) \/ TypeOf(v) # "string" \/ Trim(v.s) = <<>>

\* new DexieManager(config, dbLocale, userLocale): the first check that fails
\* throws; the fields are assigned as the checks pass.
Constructor(config, d, u) ==
    IF config \in {Undefined, Null} \/ TypeOf(config) # "object"
       \/ KeysLength(config) = 0
    THEN [pc |-> "threw", err |-> <<"ConfigRequired">>, dbLocale |-> Undefined,
          userLocale |-> Undefined]
    ELSE IF LocaleRejected(d)
    THEN [pc |-> "threw", err |-> <<"DbLocaleRequired">>, dbLocale |-> Undefined,
          userLocale |-> Undefined]
    ELSE IF LocaleRejected(u)
    THEN [pc |-> "threw", err |-> <<"UserLocaleRequired">>, dbLocale |-> d,
          userLocale |-> Undefined]
    ELSE [pc |-> "built", err |-> <<>>, dbLocale |-> d, userLocale |-> u]

NoConstruction == [config |-> Undefined, dbLocale |-> Undefined,
                   userLocale |-> Undefined, pc |-> "none", err |-> <<>>]

\* ------------------------------------------------------------- localStorage
\* What localStorage.getItem gives for 'dbLocale' and 'userLocale': null when
\* the item was never set, else the string stored.
NoItem == "<null>"
ItemValues == {NoItem, "", "en", "fr"}
\* `localStorage.getItem(...) || 'en'`
OrEn(v) == IF v \in {NoItem, ""} THEN "en" ELSE v

\* The application: the two items of localStorage, where the start is
\* (off, resetting, up), the starts made, the deletes of a locale reset that
\* succeeded, and the locale the records of the store are for.
NoBoot == [dbLocale |-> NoItem, userLocale |-> NoItem, pc |-> "none",
           starts |-> 0, resets |-> 0, built |-> "en"]

\* ------------------------------------------------------------- events
Ev(type, detail) == [type |-> type, detail |-> detail]
NameDetail == [dbName |-> DbName]
NullDetail == [null |-> TRUE]

EventTypes == {"beforeCreate", "afterCreate", "localeChanged", "beforeConnect",
               "afterConnect", "beforeDelete", "afterDelete", "beforeRefresh",
               "afterRefresh", "progress", "ready"}

\* (index / tables.length).toFixed(2), in hundredths.  toFixed rounds the exact
\* value of the double; a decimal tie goes up when the double is exact (i/n a
\* multiple of 1/8) and follows the double otherwise: for n < 200 the only other
\* ties are j/40, and the doubles nearest to these j/40 lie below the tie.
HalfwayBelow == {3, 7, 17, 19, 23, 29, 33, 39}
\* the value cut after two decimals instead of rounded
ToFixed2Truncated(i, n) == (100 * i) \div n

ToFixed2(i, n) ==
    IF \E j \in HalfwayBelow : 40 * i = j * n
    THEN (100 * i) \div n
    ELSE (200 * i + n) \div (2 * n)

\* a zero-based index in the detail
ProgressEventZeroBased(r) ==
    Ev("progress", [currentIndex |-> r.index - 1,
                    totalTables  |-> Len(r.tables),
                    tableName    |-> r.tables[r.index],
                    progress     |-> ToFixed2(r.index, Len(r.tables))])

ProgressEvent(r) ==
    Ev("progress", [currentIndex |-> r.index,
                    totalTables  |-> Len(r.tables),
                    tableName    |-> r.tables[r.index],
                    progress     |-> ToFixed2(r.index, Len(r.tables))])


\* ------------------------------------------------------------- the remote API
\* What one fetch of page p can bring: a failure (network error, a body that is
\* not JSON or not an object), or a body with a member list of m records or
\* with no member list (listed FALSE), and maybe a view.next cursor.  The last
\* page of the longest chain has no cursor.
Responses(p) ==
    {[ok |-> FALSE, listed |-> FALSE, members |-> 0, next |-> FALSE]} \cup
    {[ok |-> TRUE, listed |-> m >= 0, members |-> IF m >= 0 THEN m ELSE 0,
      next |-> b] :
        m \in (-1)..MaxMembers, b \in (IF p < MaxPages THEN BOOLEAN ELSE {FALSE})}

\* ------------------------------------------------------------- the population run
\* populateEmptyTables after `await this.syncTable(table)`: the progress event,
\* then the 600 ms pause.
AfterSync(r, tr) ==
    [run |-> [r EXCEPT !.pc = "pace", !.cnt = 0, !.page = 0],
     tr  |-> Append(tr, ProgressEvent(r))]

\* syncTable up to its first await.  No handle: the throw is outside the try and
\* rejects populateEmptyTables.  A handle without the table, or a closed one: the
\* failure is inside the try, is logged, and syncTable returns.
EnterSync(r, tr) ==
    IF Missing(db)
    THEN [run |-> [r EXCEPT !.pc = "rejected", !.cnt = 0, !.page = 0,
                            !.err = <<"NoDatabase">>],
          tr  |-> tr]
    ELSE IF ~Usable(db)
    THEN AfterSync(r, tr)
    ELSE [run |-> [r EXCEPT !.pc = "count", !.cnt = Count(r.tables[r.index])],
          tr  |-> tr]

\* the request issued and not awaited
EnterFetchDetached(r, tr, p) ==
    IF Missing(db)
    THEN AfterSync([r EXCEPT !.chain.failed = TRUE], tr)
    ELSE AfterSync([r EXCEPT !.chain.fetches = @ + 1], tr)

\* fetchTable up to `await fetch(fullUrl)`.  No handle: its throw is caught by the
\* try of the caller (syncTable, or the fetchTable of the page before).
EnterFetch(r, tr, p) ==
    IF Missing(db)
    THEN AfterSync([r EXCEPT !.chain.failed = TRUE], tr)
    ELSE [run |-> [r EXCEPT !.pc = "fetch", !.cnt = 0, !.page = p,
                            !.chain.fetches = @ + 1],
          tr  |-> tr]

\* the member list not tested: an empty list is walked, a missing one throws
HasMembersUntested(resp) == resp.ok

\* The records of a response are inserted when the member list is there and
\* non-empty.
HasMembers(resp) == resp.ok /\ resp.listed /\ resp.members > 0

\* The cursor of a response is followed when it is there and the member list is
\* non-empty: the test of view.next is inside the block of the member test.
FollowsCursor(resp) == HasMembers(resp) /\ resp.next

\* the empty table put at the front of the list
ScanFoundPrepended(r) ==
    IF r.cnt = 0 THEN <<ConfigTables[r.i]>> \o r.tables ELSE r.tables

\* countEmptyTables: a table whose count is zero is pushed onto emptyTables.
ScanFound(r) ==
    IF r.cnt = 0 THEN Append(r.tables, ConfigTables[r.i]) ELSE r.tables

\* no ready when there is nothing to populate
AfterScanSilent(r, tr) ==
    IF Len(r.tables) > 0
    THEN EnterSync(r, tr)
    ELSE [run |-> [r EXCEPT !.pc = "ready"], tr |-> tr]

\* The callback initializeDatabase gives to countEmptyTables().then: populate the
\* empty tables (up to the first await of the first syncTable), or say ready.
AfterScan(r, tr) ==
    IF Len(r.tables) > 0
    THEN EnterSync(r, tr)
    ELSE [run |-> [r EXCEPT !.pc = "ready"],
          tr  |-> Append(tr, Ev("ready", NullDetail))]

\* countEmptyTables: the count of table r.i has arrived.
ScanStep(c) ==
    /\ run[c].pc = "scan"
    /\ LET r    == run[c]
           more == [r EXCEPT !.tables = ScanFound(r), !.i = r.i + 1,
                             !.cnt = Count(r.i + 1)]
           done == [r EXCEPT !.tables = ScanFound(r), !.i = 0, !.cnt = 0,
                             !.index = 1, !.scanned = TRUE, !.w1 = writes]
           res  == IF r.i < NumTables
                   THEN IF Usable(db)
                        THEN [run |-> more, tr |-> trace[c]]
                        ELSE [run |-> [r EXCEPT !.pc = "rejected", !.cnt = 0,
                                                !.err = <<"ScanError">>],
                              tr  |-> trace[c]]
                   ELSE AfterScan(done, trace[c])
       IN  /\ run' = [run EXCEPT ![c] = res.run]
           /\ trace' = [trace EXCEPT ![c] = res.tr]
    /\ UNCHANGED <<dbLocale, userLocale, db, nDexie, store, pending, writes,
                   ncalls, call, calc, made, boot>>

\* the table fetched whatever its count
IsEmptyAlways(count) == TRUE

\* syncTable: `if (count === 0)`.
IsEmpty(count) == count = 0

\* syncTable: the count of the table has arrived.
CountStep(c) ==
    /\ run[c].pc = "count"
    /\ LET r   == run[c]
           res == IF IsEmpty(r.cnt) THEN EnterFetch(r, trace[c], 1)
                                    ELSE AfterSync(r, trace[c])
       IN  /\ run' = [run EXCEPT ![c] = res.run]
           /\ trace' = [trace EXCEPT ![c] = res.tr]
    /\ UNCHANGED <<dbLocale, userLocale, db, nDexie, store, pending, writes,
                   ncalls, call, calc, made, boot>>

\* fetchTable: the response of page r.page has arrived (fetch and json()).
FetchStep(c) ==
    /\ run[c].pc = "fetch"
    /\ \E resp \in Responses(run[c].page) :
         LET r      == run[c]
             t      == r.tables[r.index]
             recs   == PageRecords(r.page, resp.members)
             \* member.forEach throws on a missing list, db[table.name].add on a
             \* missing handle or table
             thrown == \/ ~resp.ok
                       \/ HasMembers(resp) /\ ~resp.listed
                       \/ HasMembers(resp) /\ db.st \in {"none", "new"}
             \* and returns a rejected promise nobody awaits on a closed handle
             stored == HasMembers(resp) /\ Usable(db)
             r1     == [r EXCEPT
                          !.chain.pages  = IF resp.ok THEN @ + 1 ELSE @,
                          !.chain.failed = @ \/ thrown,
                          !.chain.next   = resp.next,
                          !.chain.served = @ \cup recs,
                          !.chain.added  = IF stored THEN @ \cup recs ELSE @]
             res    == IF ~thrown /\ FollowsCursor(resp)
                       THEN EnterFetch(r1, trace[c], r.page + 1)
                       ELSE AfterSync(r1, trace[c])
         IN  /\ run' = [run EXCEPT ![c] = res.run]
             /\ trace' = [trace EXCEPT ![c] = res.tr]
             /\ pending' = IF stored THEN [pending EXCEPT ![t] = @ \cup recs]
                                     ELSE pending
             /\ writes' = IF stored THEN writes + 1 ELSE writes
    /\ UNCHANGED <<dbLocale, userLocale, db, nDexie, store, ncalls, call, calc, made, boot>>

\* populateEmptyTables: the 600 ms pause is over.
PaceStep(c) ==
    /\ run[c].pc = "pace"
    /\ LET r   == [run[c] EXCEPT !.index = @ + 1, !.chain = NoChain]
           res == IF r.index <= Len(r.tables)
                  THEN EnterSync(r, trace[c])
                  ELSE [run |-> [r EXCEPT !.pc = "ready"],
                        tr  |-> Append(trace[c], Ev("ready", NullDetail))]
       IN  /\ run' = [run EXCEPT ![c] = res.run]
           /\ trace' = [trace EXCEPT ![c] = res.tr]
    /\ UNCHANGED <<dbLocale, userLocale, db, nDexie, store, pending, writes,
                   ncalls, call, calc, made, boot>>

\* IndexedDB commits the add() requests issued so far; a duplicate id is rejected.
CommitInserts ==
    /\ \E t \in Tables : pending[t] # {}
    /\ store' = [t \in Tables |-> store[t] \cup pending[t]]
    /\ pending' = [t \in Tables |-> {}]
    /\ UNCHANGED <<dbLocale, userLocale, db, nDexie, writes, ncalls, call, run,
                   trace, calc, made, boot>>

\* ------------------------------------------------------------- the lifecycle calls
Active == \E c \in Calls : call[c].pc \in {"deleting", "resetting", "opening"}
CanStart == ncalls < MaxCalls /\ ~Active

\* Errors are the chain of messages, outermost first; "StoreError" is the error
\* Dexie gave.
InRefresh(c, e) == IF call[c].kind = "refresh" THEN <<"FailedToRefresh">> \o e ELSE e

\* beforeConnect dispatched before the handle is announced and bound
BindAndConnectEarly ==
    <<Ev("beforeConnect", NameDetail),
      Ev("afterCreate", NameDetail),
      Ev("stores", [tables |-> ConfigTables])>>

\* db.version(config.version).stores(tables) between afterCreate and beforeConnect
BindAndConnect ==
    <<Ev("afterCreate", NameDetail),
      Ev("stores", [tables |-> ConfigTables]),
      Ev("beforeConnect", NameDetail)>>

\* the two locales of the detail exchanged
LocaleResetSwapped ==
    <<Ev("afterDelete", NameDetail),
      Ev("localeChanged", [oldLocale |-> userLocale, newLocale |-> dbLocale])>>

\* The locale reset after its delete: the event, then the fresh handle.
LocaleReset ==
    <<Ev("afterDelete", NameDetail),
      Ev("localeChanged", [oldLocale |-> dbLocale, newLocale |-> userLocale])>>

\* the handle kept after the delete
DeletedHandleKept(h) == h

\* deleteDatabase after a delete that succeeded: this.db = null.
DeletedHandle(h) == NoHandle

\* deleteDatabase closes the handle it deletes; a handle without schema stays so.
Deleting(h) == [h EXCEPT !.st = IF h.st = "new" THEN "new" ELSE "closed"]

\* initializeDatabase up to its first await: `await this.deleteDatabase()` when
\* the locales differ, `await this.db.open()` otherwise.
InitEntry(tr) ==
    LET h   == [id |-> nDexie + 1, st |-> "new"]
        tr1 == Append(tr, Ev("beforeCreate", NameDetail))
    IN  IF dbLocale # userLocale
        THEN [db |-> h, pc |-> "resetting",
              tr |-> Append(tr1, Ev("beforeDelete", NameDetail))]
        ELSE [db |-> [h EXCEPT !.st = "bound"], pc |-> "opening",
              tr |-> tr1 \o BindAndConnect]

StartInitialize ==
    /\ CanStart
    /\ LET c == ncalls + 1
           e == InitEntry(trace[c])
       IN  /\ ncalls' = c
           /\ call' = [call EXCEPT ![c] = [kind |-> "initialize", pc |-> e.pc,
                                           err |-> <<>>]]
           /\ db' = e.db
           /\ nDexie' = nDexie + 1
           /\ trace' = [trace EXCEPT ![c] = e.tr]
    /\ UNCHANGED <<dbLocale, userLocale, store, pending, writes, run, calc, made, boot>>

\* initializeDatabase: the delete of the locale reset has ended.
ResetDone(c) ==
    /\ call[c].pc = "resetting"
    /\ \E ok \in BOOLEAN :
         IF ok
         THEN /\ store' = [t \in Tables |-> {}]
              /\ pending' = [t \in Tables |-> {}]
              /\ writes' = writes + 1
              /\ db' = [id |-> nDexie + 1, st |-> "bound"]
              /\ nDexie' = nDexie + 1
              /\ trace' = [trace EXCEPT ![c] = @ \o LocaleReset \o BindAndConnect]
              /\ call' = [call EXCEPT ![c].pc = "opening"]
         ELSE /\ call' = [call EXCEPT
                    ![c].pc = "threw",
                    ![c].err = InRefresh(c, <<"FailedToInitialize", "FailedToDelete",
                                              "StoreError">>)]
              /\ UNCHANGED <<store, pending, writes, db, nDexie, trace>>
    /\ UNCHANGED <<dbLocale, userLocale, ncalls, run, calc, made, boot>>

\* the error of open() not wrapped by the inner catch
ConnectFailureUnwrapped == <<"FailedToInitialize", "StoreError">>

\* The error of an open() that failed: wrapped by the inner catch (line 266),
\* then by the catch of initializeDatabase (line 280).
ConnectFailure == <<"FailedToInitialize", "FailedToConnect", "StoreError">>

\* afterRefresh left out
AfterInitializeSilent(c) == <<>>

\* What the caller of an initializeDatabase() that returned does next:
\* refreshDatabase dispatches afterRefresh, an outside caller nothing.
AfterInitialize(c) ==
    IF call[c].kind = "refresh" THEN <<Ev("afterRefresh", NameDetail)>> ELSE <<>>

\* the scan and the population awaited before the return
StartScanAwaited ==
    [NoRun EXCEPT !.pc = "ready", !.scanned = TRUE, !.index = 1, !.w0 = writes,
                  !.w1 = writes]

\* `this.countEmptyTables().then(...)`: the scan runs up to its first await, the
\* count of the first table, and the promise is left to itself.
StartScan ==
    [NoRun EXCEPT !.pc = "scan", !.i = 1, !.cnt = Count(1), !.w0 = writes]

\* initializeDatabase: open() has ended.  On success the scan is started and not
\* awaited: the call returns (refreshDatabase emits afterRefresh).
OpenDone(c) ==
    /\ call[c].pc = "opening"
    /\ \E ok \in BOOLEAN :
         IF ok
         THEN /\ db' = [db EXCEPT !.st = "open"]
              /\ trace' = [trace EXCEPT ![c] =
                    @ \o <<Ev("afterConnect", NameDetail)>> \o AfterInitialize(c)]
              /\ run' = [run EXCEPT ![c] = StartScan]
              /\ call' = [call EXCEPT ![c].pc = "returned"]
         ELSE /\ db' = [db EXCEPT !.st = "closed"]
              /\ call' = [call EXCEPT
                    ![c].pc = "threw",
                    ![c].err = InRefresh(c, ConnectFailure)]
              /\ UNCHANGED <<trace, run>>
    /\ UNCHANGED <<dbLocale, userLocale, nDexie, store, pending, writes, ncalls,
                   calc, made, boot>>

\* deleteDatabase up to `await this.db.delete()`.  The throw for a missing handle
\* is inside the try, so the catch wraps it like a failed delete.
StartDelete ==
    /\ CanStart
    /\ LET c == ncalls + 1
       IN  /\ ncalls' = c
           /\ IF Missing(db)
              THEN /\ call' = [call EXCEPT ![c] =
                         [kind |-> "delete", pc |-> "threw",
                          err |-> <<"FailedToDelete", "NoDatabaseToDelete">>]]
                   /\ UNCHANGED <<db, trace>>
              ELSE /\ call' = [call EXCEPT ![c] =
                         [kind |-> "delete", pc |-> "deleting", err |-> <<>>]]
                   /\ db' = Deleting(db)
                   /\ trace' = [trace EXCEPT ![c] =
                         Append(@, Ev("beforeDelete", NameDetail))]
    /\ UNCHANGED <<dbLocale, userLocale, nDexie, store, pending, writes, run,
                   calc, made, boot>>

\* refreshDatabase up to the await inside deleteDatabase.  The throw for a
\* missing handle is outside the try.
StartRefresh ==
    /\ CanStart
    /\ LET c == ncalls + 1
       IN  /\ ncalls' = c
           /\ IF Missing(db)
              THEN /\ call' = [call EXCEPT ![c] =
                         [kind |-> "refresh", pc |-> "threw",
                          err |-> <<"NoDatabaseToRefresh">>]]
                   /\ UNCHANGED <<db, trace>>
              ELSE /\ call' = [call EXCEPT ![c] =
                         [kind |-> "refresh", pc |-> "deleting", err |-> <<>>]]
                   /\ db' = Deleting(db)
                   /\ trace' = [trace EXCEPT ![c] =
                         @ \o <<Ev("beforeRefresh", NameDetail),
                                Ev("beforeDelete", NameDetail)>>]
    /\ UNCHANGED <<dbLocale, userLocale, nDexie, store, pending, writes, run,
                   calc, made, boot>>

\* deleteDatabase: db.delete() has ended.  refreshDatabase goes on with
\* initializeDatabase.
DeleteDone(c) ==
    /\ call[c].pc = "deleting"
    /\ \E ok \in BOOLEAN :
         IF ok
         THEN /\ store' = [t \in Tables |-> {}]
              /\ pending' = [t \in Tables |-> {}]
              /\ writes' = writes + 1
              /\ IF call[c].kind = "refresh"
                 THEN LET e == InitEntry(Append(trace[c], Ev("afterDelete", NameDetail)))
                      IN  /\ db' = e.db
                          /\ nDexie' = nDexie + 1
                          /\ trace' = [trace EXCEPT ![c] = e.tr]
                          /\ call' = [call EXCEPT ![c].pc = e.pc]
                 ELSE /\ db' = DeletedHandle(db)
                      /\ trace' = [trace EXCEPT ![c] =
                            Append(@, Ev("afterDelete", NameDetail))]
                      /\ call' = [call EXCEPT ![c].pc = "returned"]
                      /\ UNCHANGED nDexie
         ELSE /\ call' = [call EXCEPT
                    ![c].pc = "threw",
                    ![c].err = InRefresh(c, <<"FailedToDelete", "StoreError">>)]
              /\ UNCHANGED <<store, pending, writes, db, nDexie, trace>>
    /\ UNCHANGED <<dbLocale, userLocale, ncalls, run, calc, made, boot>>

\* ------------------------------------------------------------- the specification
Init ==
    /\ dbLocale \in StoredLocales
    /\ userLocale \in ActiveLocales
    /\ db = NoHandle
    /\ nDexie = 0
    /\ store \in [Tables -> {{}, {OldRecord}}]
    /\ pending = [t \in Tables |-> {}]
    /\ writes = 0
    /\ ncalls = 0
    /\ call = [c \in Calls |-> NoCall]
    /\ run = [c \in Calls |-> NoRun]
    /\ trace = [c \in Calls |-> <<>>]
    /\ calc = [n |-> 0, i |-> 0, prev |-> 0, cur |-> 0]
    /\ made = NoConstruction
    /\ boot = NoBoot

Next ==
    \/ StartInitialize
    \/ StartDelete
    \/ StartRefresh
    \/ \E c \in Calls : ResetDone(c)
    \/ \E c \in Calls : OpenDone(c)
    \/ \E c \in Calls : DeleteDone(c)
    \/ \E c \in Calls : ScanStep(c)
    \/ \E c \in Calls : CountStep(c)
    \/ \E c \in Calls : FetchStep(c)
    \/ \E c \in Calls : PaceStep(c)
    \/ CommitInserts

Spec == Init /\ [][Next]_vars

\* ------------------------------------------------------------- the progress values
\* The loop of populateEmptyTables over n tables, its arithmetic alone: index
\* goes from 1 to n and each turn computes (index / n).toFixed(2).
ProgressStep ==
    /\ calc.i < calc.n
    /\ calc' = [n |-> calc.n, i |-> calc.i + 1, prev |-> calc.cur,
                cur |-> ToFixed2(calc.i + 1, calc.n)]
    /\ UNCHANGED <<dbLocale, userLocale, db, nDexie, store, pending, writes,
                   ncalls, call, run, trace, made, boot>>

InitProgress ==
    /\ dbLocale = "en"
    /\ userLocale = "en"
    /\ db = NoHandle
    /\ nDexie = 0
    /\ store = [t \in Tables |-> {}]
    /\ pending = [t \in Tables |-> {}]
    /\ writes = 0
    /\ ncalls = 0
    /\ call = [c \in Calls |-> NoCall]
    /\ run = [c \in Calls |-> NoRun]
    /\ trace = [c \in Calls |-> <<>>]
    /\ calc \in {[n |-> n, i |-> 0, prev |-> 0, cur |-> 0] : n \in 1..MaxTotal}
    /\ made = NoConstruction
    /\ boot = NoBoot

SpecProgress == InitProgress /\ [][ProgressStep]_vars

\* ------------------------------------------------------------- the construction
\* new DexieManager(...) on its own: the arguments are drawn, then the
\* constructor runs.  The fields are undefined before it.
Construct ==
    /\ made.pc = "new"
    /\ LET k == Constructor(made.config, made.dbLocale, made.userLocale)
       IN  /\ made' = [made EXCEPT !.pc = k.pc, !.err = k.err]
           /\ dbLocale' = k.dbLocale
           /\ userLocale' = k.userLocale
    /\ UNCHANGED <<db, nDexie, store, pending, writes, ncalls, call, run, trace,
                   calc, boot>>

InitConstruct ==
    /\ dbLocale = Undefined
    /\ userLocale = Undefined
    /\ db = NoHandle
    /\ nDexie = 0
    /\ store = [t \in Tables |-> {}]
    /\ pending = [t \in Tables |-> {}]
    /\ writes = 0
    /\ ncalls = 0
    /\ call = [c \in Calls |-> NoCall]
    /\ run = [c \in Calls |-> NoRun]
    /\ trace = [c \in Calls |-> <<>>]
    /\ calc = [n |-> 0, i |-> 0, prev |-> 0, cur |-> 0]
    /\ made \in {[config |-> k, dbLocale |-> d, userLocale |-> u, pc |-> "new",
                  err |-> <<>>] :
                    k \in ConfigValues, d \in LocaleValues, u \in LocaleValues}
    /\ boot = NoBoot

SpecConstruct == InitConstruct /\ [][Construct]_vars

\* ------------------------------------------------------------- the bootstrap
\* The listener the bootstrap gives to database:localeChanged.
OnLocaleChanged(b, ev) ==
    [b EXCEPT !.dbLocale = ev.detail.newLocale, !.userLocale = ev.detail.oldLocale]

\* app.on('init'): the manager is built from the two items of localStorage and
\* initializeDatabase() is called, which runs up to its first await: the
\* delete of the locale reset when the locales differ.
AppStart ==
    /\ boot.pc = "off"
    /\ boot.starts < MaxStarts
    /\ LET d == OrEn(boot.dbLocale)
           u == OrEn(boot.userLocale)
       IN  /\ dbLocale' = d
           /\ userLocale' = u
           /\ boot' = [boot EXCEPT !.starts = @ + 1,
                                   !.pc = IF d # u THEN "resetting" ELSE "up"]
    /\ UNCHANGED <<db, nDexie, store, pending, writes, ncalls, call, run, trace,
                   calc, made>>

\* initializeDatabase: the delete of the locale reset has ended.  When it
\* succeeded localeChanged is dispatched, the listener runs, and the store is
\* filled again with this.locale = this.userLocale in the URLs.
BootResetDone ==
    /\ boot.pc = "resetting"
    /\ \E ok \in BOOLEAN :
         IF ok
         THEN boot' = [OnLocaleChanged(boot, LocaleReset[Len(LocaleReset)]) EXCEPT
                          !.pc = "up", !.resets = @ + 1, !.built = userLocale]
         ELSE boot' = [boot EXCEPT !.pc = "failed"]
    /\ UNCHANGED <<dbLocale, userLocale, db, nDexie, store, pending, writes,
                   ncalls, call, run, trace, calc, made>>

\* The application is closed; localStorage and the store stay.
AppStop ==
    /\ boot.pc \in {"resetting", "up", "failed"}
    /\ boot' = [boot EXCEPT !.pc = "off"]
    /\ UNCHANGED <<dbLocale, userLocale, db, nDexie, store, pending, writes,
                   ncalls, call, run, trace, calc, made>>

InitBootstrap ==
    /\ dbLocale = NoItem
    /\ userLocale = NoItem
    /\ db = NoHandle
    /\ nDexie = 0
    /\ store = [t \in Tables |-> {}]
    /\ pending = [t \in Tables |-> {}]
    /\ writes = 0
    /\ ncalls = 0
    /\ call = [c \in Calls |-> NoCall]
    /\ run = [c \in Calls |-> NoRun]
    /\ trace = [c \in Calls |-> <<>>]
    /\ calc = [n |-> 0, i |-> 0, prev |-> 0, cur |-> 0]
    /\ made = NoConstruction
    /\ boot \in {[dbLocale |-> d, userLocale |-> u, pc |-> "off", starts |-> 0,
                  resets |-> 0, built |-> OrEn(d)] :
                    d \in ItemValues, u \in ItemValues}

NextBootstrap == AppStart \/ BootResetDone \/ AppStop

SpecBootstrap == InitBootstrap /\ [][NextBootstrap]_vars


\* ------------------------------------------------------------- reading a trace
OfType(seq, ty) == SelectSeq(seq, LAMBDA e : e.type = ty)
Has(seq, ty) == \E i \in 1..Len(seq) : seq[i].type = ty
FirstPos(seq, ty) ==
    IF Has(seq, ty)
    THEN CHOOSE i \in 1..Len(seq) :
            seq[i].type = ty /\ \A j \in 1..(i - 1) : seq[j].type # ty
    ELSE 0
IsPrefix(a, b) == Len(a) <= Len(b) /\ \A i \in 1..Len(a) : a[i] = b[i]
Last(seq) == seq[Len(seq)]

\* The types of the events a call dispatched (the schema binding is no event).
Dispatched(c) ==
    LET ev == SelectSeq(trace[c], LAMBDA e : e.type \in EventTypes)
    IN  [i \in 1..Len(ev) |-> ev[i].type]

\* The events of initializeDatabase up to afterConnect.
ConnectOrder ==
    <<"beforeCreate">>
    \o (IF dbLocale # userLocale
        THEN <<"beforeDelete", "afterDelete", "localeChanged">> ELSE <<>>)
    \o <<"afterCreate", "beforeConnect", "afterConnect">>

\* The messages initializeDatabase and refreshDatabase put around any error
\* that passes through them; the spec (section 7) has no class for them.
Wrappers == {"FailedToInitialize", "FailedToRefresh"}

\* The error class of the spec (section 7) an error shows to the caller: that
\* of its outermost message below the wrappers.
ErrorClass(err) ==
    LET e == SelectSeq(err, LAMBDA m : m \notin Wrappers)
    IN  CASE Head(e) \in {"NoDatabaseToDelete", "NoDatabaseToRefresh",
                          "NoDatabase"}     -> "NotFoundError"
          [] Head(e) = "FailedToDelete"     -> "DeletionError"
          [] Head(e) = "FailedToConnect"    -> "ConnectionError"
          [] Head(e) = "ConfigRequired"     -> "ConfigurationError"
          [] Head(e) \in {"DbLocaleRequired", "UserLocaleRequired"} -> "LocaleError"
          [] OTHER                          -> Head(e)

\* The configured tables that hold no record now, in configuration order.
EmptyNow == SelectSeq(ConfigTables, LAMBDA t : Count(t) = 0)

\* ------------------------------------------------------------- C1
\* C1: the run of a call over n >= 1 empty tables dispatches progress events
\* with currentIndex 1, 2, ... in that order, each with totalTables = n and the
\* name of the i-th scanned table, never more than n; ready is dispatched at
\* most once, only after the n-th progress event, and then nothing follows it.
C1_ProgressThenReady ==
    \A c \in Calls :
        LET r == run[c]
            n == Len(r.tables)
            P == OfType(trace[c], "progress")
            R == OfType(trace[c], "ready")
        IN  /\ ~r.scanned => (P = <<>> /\ R = <<>>)
            /\ (r.scanned /\ n >= 1) =>
                  /\ Len(P) <= n
                  /\ \A i \in 1..Len(P) :
                        /\ P[i].detail.currentIndex = i
                        /\ P[i].detail.totalTables = n
                        /\ P[i].detail.tableName = r.tables[i]
                  /\ Len(R) <= 1
                  /\ (Len(R) = 1) <=> (r.pc = "ready")
                  /\ r.pc = "ready" =>
                        /\ Len(P) = n
                        /\ Last(trace[c]).type = "ready"
                        /\ Last(trace[c]).detail = NullDetail

C1_Witness ==
    \E c \in Calls :
        /\ run[c].pc = "ready"
        /\ Len(run[c].tables) = NumTables
        /\ Len(OfType(trace[c], "progress")) = NumTables

\* ------------------------------------------------------------- C2
\* C2: a run that has scanned its tables is never aborted by a failure: it is
\* ready or has a step pending (a count, a fetch, the pause), so that under
\* fair scheduling and finite cursor chains it ends with ready.  A step that
\* finds the handle deleted by a later delete() or refresh() refutes it.
C2_RunReadyOrPending ==
    \A c \in Calls : run[c].scanned => run[c].pc # "rejected"

\* ------------------------------------------------------------- C3
\* C3: when fetchTable has ended for a table without an error, the last body it
\* received carried no cursor, one request was issued per body received, and
\* every record of every body was given to add().
C3_CursorChainFollowedToEnd ==
    \A c \in Calls :
        LET ch == run[c].chain
        IN  (run[c].pc = "pace" /\ ch.fetches > 0 /\ ~ch.failed) =>
                /\ ~ch.next
                /\ ch.fetches = ch.pages
                /\ ch.added = ch.served

\* ------------------------------------------------------------- C4
\* C4: an initialize() call with differing locales dispatches localeChanged at
\* most once, exactly when the delete of the reset has succeeded, with
\* {oldLocale: storedLocale, newLocale: activeLocale}, after beforeDelete and
\* afterDelete and before the schema is bound; with equal locales it dispatches
\* no beforeDelete, afterDelete or localeChanged.
C4_LocaleChangedOnce ==
    \A c \in Calls :
        LET tr == trace[c]
            LC == OfType(tr, "localeChanged")
        IN  call[c].kind = "initialize" =>
              IF dbLocale = userLocale
              THEN ~Has(tr, "beforeDelete") /\ ~Has(tr, "afterDelete")
                   /\ ~Has(tr, "localeChanged")
              ELSE /\ Len(LC) <= 1
                   /\ Len(OfType(tr, "afterDelete")) = Len(LC)
                   /\ call[c].pc \in {"opening", "returned"} => Len(LC) = 1
                   /\ Len(LC) = 1 =>
                        /\ LC[1].detail = [oldLocale |-> dbLocale,
                                           newLocale |-> userLocale]
                        /\ 0 < FirstPos(tr, "beforeDelete")
                        /\ FirstPos(tr, "beforeDelete") < FirstPos(tr, "afterDelete")
                        /\ FirstPos(tr, "afterDelete") < FirstPos(tr, "localeChanged")
                        /\ FirstPos(tr, "localeChanged") < FirstPos(tr, "stores")
                        /\ Len(OfType(tr, "stores")) = 1

C4_Witness ==
    \E c \in Calls :
        /\ call[c].kind = "initialize"
        /\ call[c].pc = "returned"
        /\ dbLocale # userLocale
        /\ Has(trace[c], "localeChanged")

\* ------------------------------------------------------------- C5
\* C5: an initialize() call throws only when the store's open or delete failed;
\* one that returned has dispatched afterConnect; and the events of the call
\* are a prefix of beforeCreate, the reset events if the locales differ,
\* afterCreate, beforeConnect, afterConnect, progress*, ready: afterConnect
\* comes before every progress event and before ready.
C5_ConnectBeforePopulate ==
    \A c \in Calls :
        LET T == Dispatched(c)
        IN  call[c].kind = "initialize" =>
              /\ call[c].pc = "threw" => Last(call[c].err) = "StoreError"
              /\ call[c].pc = "returned" => IsPrefix(ConnectOrder, T)
              /\ \/ IsPrefix(T, ConnectOrder)
                 \/ /\ IsPrefix(ConnectOrder, T)
                    /\ \A i \in (Len(ConnectOrder) + 1)..Len(T) :
                          \/ T[i] = "progress"
                          \/ T[i] = "ready" /\ i = Len(T)

C5_Witness ==
    \E c \in Calls :
        /\ call[c].kind = "initialize"
        /\ call[c].pc = "returned"
        /\ run[c].pc = "ready"
        /\ Has(trace[c], "progress")

\* ------------------------------------------------------------- C6
Abs(x) == IF x < 0 THEN -x ELSE x

\* C6 (as amended): the i-th progress value of a run over n tables is i/n
\* rounded to two decimals (within half a hundredth of it); the values never
\* decrease, the last one is 1.00, and they increase strictly when n <= 100.
C6_ProgressValues ==
    calc.i >= 1 =>
        /\ 2 * Abs(100 * calc.i - calc.cur * calc.n) <= calc.n
        /\ calc.i >= 2 => calc.prev <= calc.cur
        /\ (calc.i >= 2 /\ calc.n <= 100) => calc.prev < calc.cur
        /\ calc.i = calc.n => calc.cur = 100

\* C6 as stated: the values increase strictly for every n >= 1.
C6_StrictForEveryTotal ==
    calc.i >= 1 =>
        /\ 2 * Abs(100 * calc.i - calc.cur * calc.n) <= calc.n
        /\ calc.i >= 2 => calc.prev < calc.cur
        /\ calc.i = calc.n => calc.cur = 100

C6_Witness ==
    /\ calc.n = 100
    /\ calc.i = calc.n
    /\ calc.prev = 99
    /\ calc.cur = 100

\* ------------------------------------------------------------- C7
\* C7: a run whose scan found no empty table is over at once: it has dispatched
\* ready once and no progress event, and it has synced no table, so it has
\* issued no fetch and no add().
C7_NoEmptyTableOnlyReady ==
    \A c \in Calls :
        (run[c].scanned /\ run[c].tables = <<>>) =>
            /\ run[c].pc = "ready"
            /\ Len(OfType(trace[c], "ready")) = 1
            /\ ~Has(trace[c], "progress")
            /\ run[c].index = 1
            /\ run[c].chain = NoChain

C7_Witness ==
    \E c \in Calls :
        /\ run[c].scanned
        /\ run[c].tables = <<>>
        /\ Last(trace[c]).type = "ready"

\* ------------------------------------------------------------- C8
\* C8: a scan during which no write was issued returns the configured tables
\* that hold no record, in configuration order; two scans with no write issued
\* from the start of the earlier to the end of the later return the same list;
\* and a step of the scan changes neither the store nor the handle, and
\* dispatches no event while the scan goes on.
C8_Exact ==
    \A c \in Calls :
        /\ (run[c].scanned /\ writes = run[c].w0) => run[c].tables = EmptyNow
        /\ \A d \in Calls :
              (/\ run[c].scanned /\ run[d].scanned
               /\ run[c].w1 = run[c].w0 /\ run[d].w0 = run[c].w0
               /\ run[d].w1 = run[c].w0) => run[c].tables = run[d].tables

C8_PureStep ==
    \A c \in Calls :
        (run[c].pc = "scan" /\ run'[c] # run[c]) =>
            /\ UNCHANGED <<store, pending, writes, db>>
            /\ run'[c].pc = "scan" => trace'[c] = trace[c]

C8_ScanExactAndPure == [] C8_Exact /\ [][C8_PureStep]_vars

C8_Witness ==
    \E c, d \in Calls :
        /\ c < d
        /\ run[c].scanned /\ run[d].scanned
        /\ run[c].w1 = run[c].w0 /\ run[d].w0 = run[c].w0 /\ run[d].w1 = run[c].w0
        /\ run[c].tables = ConfigTables
        /\ run[d].tables = ConfigTables
        /\ db.st = "open"

\* ------------------------------------------------------------- C9
\* C9: delete() with no handle fails with NotFoundError, not DeletionError,
\* dispatches no event and leaves the handle absent.
C9_DeleteWithoutHandleIsNotFound ==
    \A c \in Calls :
        (/\ call[c].kind = "delete"
         /\ call[c].pc = "threw"
         /\ Last(call[c].err) = "NoDatabaseToDelete") =>
            /\ ErrorClass(call[c].err) = "NotFoundError"
            /\ trace[c] = <<>>
            /\ ncalls = c => db = NoHandle

\* ------------------------------------------------------------- C10
HadHandle(c) == call[c].err = <<>> \/ Last(call[c].err) # "NoDatabaseToDelete"

\* C10: delete() with a handle dispatches beforeDelete first; when the store's
\* delete succeeds it dispatches afterDelete and the handle is null; when it
\* fails the call fails with DeletionError, afterDelete is not dispatched and
\* this.db is the handle it was.
C10_DeleteBracketsAndNulls ==
    \A c \in Calls :
        (call[c].kind = "delete" /\ HadHandle(c)) =>
            /\ call[c].pc = "deleting" =>
                  /\ Dispatched(c) = <<"beforeDelete">>
                  /\ db.id # 0
            /\ call[c].pc = "returned" =>
                  /\ Dispatched(c) = <<"beforeDelete", "afterDelete">>
                  /\ ncalls = c => db = NoHandle
            /\ call[c].pc = "threw" =>
                  /\ ErrorClass(call[c].err) = "DeletionError"
                  /\ Dispatched(c) = <<"beforeDelete">>
                  /\ ncalls = c => (db.id # 0 /\ db.id = nDexie)

C10_Witness ==
    \E c \in Calls :
        /\ call[c].kind = "delete"
        /\ call[c].pc = "returned"
        /\ Dispatched(c) = <<"beforeDelete", "afterDelete">>
        /\ db = NoHandle


\* ------------------------------------------------------------- C11
\* The events of a refreshDatabase() that returned, up to afterRefresh.
RefreshOrder ==
    <<"beforeRefresh", "beforeDelete", "afterDelete">> \o ConnectOrder
    \o <<"afterRefresh">>

\* C11: refresh() with no handle fails with NotFoundError, dispatches nothing
\* and creates no handle.  With a handle its events are, in this order,
\* beforeRefresh, those of delete(), those of initialize(), afterRefresh (then
\* those of the population run); one that returned has dispatched afterRefresh
\* and the handle is not null; one that failed gives the caller the error of
\* the step that failed, wrapped, and has not dispatched afterRefresh.
C11_RefreshBrackets ==
    \A c \in Calls :
        LET T == Dispatched(c)
        IN  call[c].kind = "refresh" =>
              IF call[c].err = <<"NoDatabaseToRefresh">>
              THEN /\ call[c].pc = "threw"
                   /\ ErrorClass(call[c].err) = "NotFoundError"
                   /\ trace[c] = <<>>
                   /\ ncalls = c => db = NoHandle
              ELSE /\ T[1] = "beforeRefresh"
                   /\ \/ IsPrefix(T, RefreshOrder) /\ Len(T) < Len(RefreshOrder)
                      \/ /\ IsPrefix(RefreshOrder, T)
                         /\ \A i \in (Len(RefreshOrder) + 1)..Len(T) :
                               \/ T[i] = "progress"
                               \/ T[i] = "ready" /\ i = Len(T)
                   /\ call[c].pc = "returned" <=> Has(trace[c], "afterRefresh")
                   /\ call[c].pc = "returned" /\ ncalls = c => db.st = "open"
                   /\ call[c].pc = "threw" =>
                         /\ Head(call[c].err) = "FailedToRefresh"
                         /\ call[c].err[2] \in {"FailedToDelete", "FailedToInitialize"}
                         /\ Last(call[c].err) = "StoreError"
                         /\ call[c].err[2] = "FailedToDelete" <=>
                               ~Has(trace[c], "afterDelete")

C11_Witness ==
    \E c \in Calls :
        /\ call[c].kind = "refresh"
        /\ call[c].pc = "returned"
        /\ Last(trace[c]).type = "afterRefresh"
        /\ db.st = "open"

\* ------------------------------------------------------------- C12
InitializeFailed(c) ==
    /\ call[c].pc = "threw"
    /\ \E i \in 1..Len(call[c].err) : call[c].err[i] = "FailedToInitialize"

\* C12: an initializeDatabase() whose open() failed throws to its caller an
\* error of class ConnectionError, one whose locale reset could not delete the
\* store an error of class DeletionError; either way the call has dispatched
\* no afterConnect, progress or ready event and has started no scan, so it has
\* counted no table and issued no fetch.
C12_FailedInitializeStopsThere ==
    \A c \in Calls :
        InitializeFailed(c) =>
            /\ Last(call[c].err) = "StoreError"
            /\ IF Has(trace[c], "beforeConnect")
               THEN ErrorClass(call[c].err) = "ConnectionError"
               ELSE /\ ErrorClass(call[c].err) = "DeletionError"
                    /\ dbLocale # userLocale
                    /\ ~Has(trace[c], "localeChanged")
            /\ ~Has(trace[c], "afterConnect")
            /\ ~Has(trace[c], "progress")
            /\ ~Has(trace[c], "ready")
            /\ run[c] = NoRun

C12_Witness ==
    \E c, d \in Calls :
        /\ InitializeFailed(c) /\ Has(trace[c], "beforeConnect")
        /\ InitializeFailed(d) /\ ~Has(trace[d], "beforeConnect")

\* ------------------------------------------------------------- C13
Absent(v) == v \in {Undefined, Null}
Blank(s) == \A i \in 1..Len(s) : s[i] \in Whitespace
BadConfig(v) == Absent(v) \/ v.ty # "object" \/ v.n = 0
BadLocale(v) == Absent(v) \/ v.ty # "string" \/ Blank(v.s)

\* C13: new DexieManager(config, storedLocale, activeLocale) fails with
\* ConfigurationError when config is absent, not an object or without keys;
\* with a good config it fails with LocaleError when a locale is absent, not a
\* string or blank after trimming; with three good arguments it succeeds and
\* keeps the two locales.  Failed or not, it creates no handle and dispatches
\* no event.
C13_ConstructorValidates ==
    made.pc \notin {"none", "new"} =>
        /\ BadConfig(made.config) =>
              made.pc = "threw" /\ ErrorClass(made.err) = "ConfigurationError"
        /\ (~BadConfig(made.config)
            /\ (BadLocale(made.dbLocale) \/ BadLocale(made.userLocale))) =>
              made.pc = "threw" /\ ErrorClass(made.err) = "LocaleError"
        /\ (~BadConfig(made.config) /\ ~BadLocale(made.dbLocale)
            /\ ~BadLocale(made.userLocale)) =>
              /\ made.pc = "built"
              /\ dbLocale = made.dbLocale
              /\ userLocale = made.userLocale
        /\ db = NoHandle
        /\ nDexie = 0
        /\ \A c \in Calls : trace[c] = <<>>

C13_Witness ==
    /\ made.pc = "threw"
    /\ ~BadConfig(made.config)
    /\ ~BadLocale(made.dbLocale)
    /\ made.userLocale.ty = "string"
    /\ Len(made.userLocale.s) = MaxText
    /\ db = NoHandle

\* ------------------------------------------------------------- C14
\* The table a run is syncing, 0 when it is syncing none.
Syncing(c) ==
    IF run[c].pc \in {"count", "fetch", "pace"} THEN run[c].tables[run[c].index]
    ELSE 0

\* C14: no table is fetched by two runs of one manager: while a run has a
\* fetch chain for a table (begun, and its pause not yet over), no other run
\* has a fetch chain for that table.  Two runs that both read the count zero
\* before either has inserted a record refute it.
C14_NoTableFetchedByTwoRuns ==
    \A c, d \in Calls :
        (/\ c # d
         /\ run[c].chain.fetches > 0
         /\ run[d].chain.fetches > 0) => Syncing(c) # Syncing(d)

\* ------------------------------------------------------------- C15
\* C15: a run syncs its tables one at a time, in the order of the list (that
\* of the configuration): while it syncs its i-th table it has dispatched the
\* progress events of the i - 1 tables before and no other, and these name
\* the tables of the list in order; the request for page j of a table is out
\* only when j - 1 responses have come in; and when the progress event of a
\* table is dispatched no request of the table is unanswered.
C15_OneTableOnePageAtATime ==
    \A c \in Calls :
        LET r  == run[c]
            ch == r.chain
            P  == OfType(trace[c], "progress")
        IN  (r.scanned /\ r.pc \in {"count", "fetch", "pace"}) =>
              /\ \A i, j \in 1..Len(r.tables) : i < j => r.tables[i] < r.tables[j]
              /\ Len(P) = (IF r.pc = "pace" THEN r.index ELSE r.index - 1)
              /\ \A i \in 1..Len(P) : P[i].detail.tableName = r.tables[i]
              /\ r.pc = "count" => ch = NoChain
              /\ r.pc = "fetch" =>
                    /\ ch.fetches = r.page
                    /\ ch.pages = r.page - 1
                    /\ ~ch.failed
              /\ r.pc = "pace" =>
                    /\ ch.pages <= ch.fetches
                    /\ ch.fetches <= ch.pages + 1
                    /\ ~ch.failed => ch.fetches = ch.pages

C15_Witness ==
    \E c \in Calls :
        /\ run[c].pc = "fetch"
        /\ run[c].index = 2
        /\ run[c].page = 2
        /\ Len(OfType(trace[c], "progress")) = 1

\* ------------------------------------------------------------- C16
\* C16: when the fetch chain of a table has ended with a failed request, at
\* whichever page, the table holds no record (so that the next scan returns
\* it).  A failure at a later page, after records of the pages before have
\* been inserted, refutes it.
C16_FailedTableStaysEmpty ==
    \A c \in Calls :
        LET ch == run[c].chain
        IN  (run[c].pc = "pace" /\ ch.failed /\ ch.fetches > ch.pages) =>
                Count(Syncing(c)) = 0

\* ------------------------------------------------------------- C17
\* syncTable called with no handle: the run is rejected with the NotFoundError
\* of syncTable and has issued no request for the table.
C17_NoHandle ==
    \A c \in Calls :
        (run[c].scanned /\ run[c].pc = "rejected") =>
            /\ ErrorClass(run[c].err) = "NotFoundError"
            /\ run[c].chain = NoChain

\* The step of syncTable that has the count.
C17_Recheck ==
    \A c \in Calls :
        (run[c].pc = "count" /\ run'[c] # run[c]) =>
            /\ run[c].cnt # 0 =>
                  /\ run'[c].pc = "pace"
                  /\ run'[c].chain = NoChain
                  /\ pending' = pending
            /\ (run[c].cnt = 0 /\ db.st = "open") =>
                  /\ run'[c].pc = "fetch"
                  /\ run'[c].page = 1
                  /\ run'[c].chain.fetches = 1

\* C17: syncTable with no handle fails with NotFoundError and fetches nothing;
\* with an open handle, when the count it asked for is not zero it issues no
\* request and no add() and goes on to the progress event, and when the count
\* is zero it issues the request of the first page.
C17_SyncTableRechecks == [] C17_NoHandle /\ [][C17_Recheck]_vars

C17_Witness ==
    \E c \in Calls :
        /\ \A d \in Calls : call[d].kind = "initialize" /\ call[d].pc = "returned"
        /\ dbLocale = userLocale
        /\ db.st = "open"
        /\ run[c].pc = "pace"
        /\ run[c].chain = NoChain
        /\ Count(Syncing(c)) > 0

\* ------------------------------------------------------------- C18
\* C18: when a response comes in that is a body without a member list, or
\* with an empty one, no add() is issued and no error is caught: the records
\* of the store are those before, fetchTable and syncTable return, and the
\* progress event of the table is dispatched.
C18_NoMembersStep ==
    \A c \in Calls :
        (/\ run[c].pc = "fetch"
         /\ run'[c].chain.pages = run[c].chain.pages + 1
         /\ run'[c].chain.served = run[c].chain.served) =>
            /\ UNCHANGED <<store, pending, writes>>
            /\ ~run'[c].chain.failed
            /\ run'[c].pc = "pace"
            /\ trace'[c] = Append(trace[c], ProgressEvent(run[c]))

C18_NoMembersNoInsertNoError == [][C18_NoMembersStep]_vars

C18_Witness ==
    \E c \in Calls :
        /\ run[c].pc = "pace"
        /\ run[c].chain.fetches = 1
        /\ run[c].chain.pages = 1
        /\ run[c].chain.served = {}
        /\ ~run[c].chain.failed
        /\ Count(Syncing(c)) = 0
        /\ Last(trace[c]).type = "progress"
        /\ Last(trace[c]).detail.tableName = Syncing(c)

\* ------------------------------------------------------------- C19
\* After a call that returned, and before the next call: the handle is the
\* open handle the call made, or null when the call was a delete().
C19_AfterCall ==
    \A c \in Calls :
        (call[c].pc = "returned" /\ ncalls = c) =>
            IF call[c].kind = "delete" THEN db = NoHandle
            ELSE db.id = nDexie /\ db.st = "open"

\* A delete() or refresh() called with a null handle, and a syncTable() a run
\* calls with a null handle, fail in that step, which makes no handle and
\* dispatches nothing.
C19_NullHandleStep ==
    /\ (db = NoHandle /\ ncalls' = ncalls + 1
        /\ call'[ncalls'].kind \in {"delete", "refresh"}) =>
            /\ call'[ncalls'].pc = "threw"
            /\ UNCHANGED <<db, nDexie, trace, run>>
    /\ \A c \in Calls :
          (db = NoHandle /\ run[c].pc = "pace" /\ run'[c] # run[c]
           /\ run[c].index < Len(run[c].tables)) =>
              /\ run'[c].pc = "rejected"
              /\ run'[c].err = <<"NoDatabase">>
              /\ UNCHANGED <<db, nDexie, trace>>

\* C19: calls run one after another leave the handle non-null after an
\* initialize() or refresh() that succeeded and null after a delete() that
\* succeeded; delete(), refresh() and syncTable() called while the handle is
\* null fail, make no handle and dispatch no event.
C19_HandleLifecycle == [] C19_AfterCall /\ [][C19_NullHandleStep]_vars

C19_Witness ==
    /\ call[1].kind = "initialize" /\ call[1].pc = "returned"
    /\ call[2].kind = "delete" /\ call[2].pc = "returned"
    /\ db = NoHandle
    /\ run[1].pc = "rejected"
    /\ run[1].err = <<"NoDatabase">>

\* ------------------------------------------------------------- C20
\* C20: initializeDatabase() returns without waiting for the population: in
\* the step in which the call returns (and refreshDatabase dispatches
\* afterRefresh) the run has only asked for its first count; it has dispatched
\* no progress and no ready event and has changed no table, so every table
\* that was empty is still empty.
C20_ReturnStep ==
    \A c \in Calls :
        (call[c].pc = "opening" /\ call'[c].pc = "returned") =>
            /\ run'[c].pc = "scan"
            /\ ~run'[c].scanned
            /\ ~Has(trace'[c], "ready")
            /\ ~Has(trace'[c], "progress")
            /\ UNCHANGED <<store, pending>>
            /\ Last(trace'[c]).type =
                  (IF call[c].kind = "refresh" THEN "afterRefresh" ELSE "afterConnect")

C20_ReturnsBeforeReady == [][C20_ReturnStep]_vars

C20_Witness ==
    \E c \in Calls :
        /\ call[c].kind = "refresh"
        /\ call[c].pc = "returned"
        /\ Has(trace[c], "afterRefresh")
        /\ ~Has(trace[c], "ready")
        /\ run[c].pc \in {"scan", "count", "fetch", "pace"}
        /\ \A t \in Tables : Count(t) = 0

\* ------------------------------------------------------------- C21
\* C21: when the progress event of a table is dispatched after a fetch chain
\* that ended without an error, every record the pages of the chain held is
\* stored in the table; and when ready is dispatched by the run of the only
\* call made, no insert is still pending.  The add() requests nobody awaits
\* refute it.
C21_InsertsDoneBeforeEvents ==
    \A c \in Calls :
        LET ch == run[c].chain
        IN  /\ (run[c].pc = "pace" /\ ch.fetches > 0 /\ ~ch.failed) =>
                  ch.served \subseteq store[Syncing(c)]
            /\ (run[c].pc = "ready" /\ ncalls = 1) =>
                  \A t \in Tables : pending[t] = {}

\* ------------------------------------------------------------- C22
\* C22: a run in flight when a later delete() was called and returned is not
\* ended by an error nobody handles: none of its steps is rejected, so it
\* goes on to its one ready event.  The scan, and syncTable's guard outside
\* its try, meeting the null handle refute it.
C22_RunSurvivesDelete ==
    \A c, d \in Calls :
        (/\ c < d
         /\ call[d].kind = "delete"
         /\ call[d].pc = "returned"
         /\ Has(trace[c], "afterConnect")) => run[c].pc # "rejected"

\* ------------------------------------------------------------- C23
\* C23: on a manager built with differing locales, once an initialize() has
\* returned (the store was reset for the active locale), a later initialize()
\* dispatches no localeChanged and deletes nothing, and a later refresh()
\* dispatches no localeChanged and deletes the store once.  The dbLocale
\* field, which no method assigns, refutes it.
C23_LocaleResetOnlyOnce ==
    \A c, d \in Calls :
        (/\ c < d
         /\ dbLocale # userLocale
         /\ call[c].kind = "initialize"
         /\ call[c].pc = "returned"
         /\ call[d].kind \in {"initialize", "refresh"}) =>
            /\ ~Has(trace[d], "localeChanged")
            /\ Len(OfType(trace[d], "beforeDelete")) <=
                  (IF call[d].kind = "refresh" THEN 1 ELSE 0)

\* ------------------------------------------------------------- C24
\* C24: once the listener of localeChanged has run, the two items of
\* localStorage are the locale the store was rebuilt for, and over any number
\* of starts (the user never changing the locale) the store is reset at most
\* once.  The listener, which stores the new locale as dbLocale and the old one
\* as userLocale, refutes it.
C24_PersistedLocalesSettle ==
    /\ boot.resets >= 1 =>
          /\ boot.dbLocale = boot.built
          /\ boot.userLocale = boot.built
    /\ boot.resets <= 1

=============================================================================
